---- MODULE Spec2Model ----
(***************************************************************************)
(* Model of the kernel core of rust_os:                                    *)
(*   - src/src/task/keyboard.rs : the scancode queue shared between the    *)
(*     keyboard interrupt (add_scancode) and the asynchronous consumer     *)
(*     (ScancodeStream::poll_next, driven by print_keypresses);            *)
(*   - src/src/memory.rs : BootInfoFrameAllocator and the example mapping. *)
(*                                                                         *)
(* Execution model (single core): task code runs one statement at a time;  *)
(* the keyboard interrupt may fire between any two task statements and     *)
(* then runs add_scancode to completion before task code resumes.          *)
(***************************************************************************)
EXTENDS Integers, Sequences, FiniteSets, TLC

----------------------------------------------------------------------------
(* Bounds of the model *)

\* number of add_scancode calls (keyboard interrupts) explored
MaxCalls == 3
\* scancodes are u8; the interrupt delivers a code of 1..MaxCode
MaxCode == 2
\* free slots left in the queue in the initial state of SpecLoaded
Headroom == 1
\* regions of the boot memory map
MaxRegions == 2
\* frame numbers of region boundaries range over 0..MaxFrameNo
MaxFrameNo == 3
\* entries per page table that the model distinguishes (512 in hardware)
TableEntries == 2
\* number of create_example_mapping calls explored
MaxMaps == 3
\* tasks spawned on the executor, and waker invocations explored
MaxTasks == 3
MaxWakes == 2

----------------------------------------------------------------------------
(* Program constants *)

\* ArrayQueue::new(100)
QUEUE_CAPACITY == 100

Codes == 1..MaxCode
\* instances of the print_keypresses task that may be spawned
Tasks == {1, 2}
NoTask == 0
\* the empty state of WAKER (AtomicWaker holding no waker)
NoWaker == 0
NoCode == 0

VARIABLES
    queueInit,   \* SCANCODE_QUEUE (OnceCell) is initialised
    queue,       \* contents of the ArrayQueue, oldest first
    WAKER,       \* task whose waker is registered in WAKER, or NoWaker
    ready,       \* tasks whose waker was woken and that await their next poll
    running,     \* task currently being polled, or NoTask
    tpc,         \* per task: position inside print_keypresses / poll_next
    held,        \* per task: local `scancode` of poll_next (line 71)
    lastPoll,    \* per task: outcome of its last poll_next call
    streams,     \* per task: it owns a ScancodeStream value
    panicked,    \* a panic halted task context (panic handler loops forever)
    ipc,         \* position of the interrupt handler inside add_scancode
    icode,       \* argument of the running add_scancode call
    calls,       \* number of add_scancode calls so far
    diag,        \* diagnostics printed by add_scancode, in order
    pushed,      \* history: codes accepted by q.push, in order
    delivered,   \* history: codes returned as Ready(Some(_)), in order
    irqSteps,    \* history: steps taken by the running add_scancode call
    offered,     \* history: codes passed to add_scancode, in call order
    resumed,     \* per task: its current poll_next call is the first one
                 \* after it was suspended and polled again
    memory_map,  \* BootInfoFrameAllocator.memory_map
    next,        \* BootInfoFrameAllocator.next
    results,     \* history: values returned by allocate_frame, in call order
    tables,      \* physical frames that hold page tables, and their entries
    lastMap,     \* history: number, page and outcome of the last
                 \* create_example_mapping call
    executor     \* the cooperative executor: task set, ready-queue, waker
                 \* cache, and the history of its spawns, polls and wakes

kbdVars == <<queueInit, queue, WAKER, ready, running, tpc, held, lastPoll,
             streams, panicked, ipc, icode, calls, diag, pushed, delivered,
             irqSteps, offered, resumed>>

memVars == <<memory_map, next, results, tables, lastMap>>

vars == <<kbdVars, memVars, executor>>

----------------------------------------------------------------------------
(* crossbeam_queue::ArrayQueue and futures AtomicWaker, as used by the code *)

\* q.push(v): Err when the queue holds `capacity` elements
PushOk(q) == Len(q) < QUEUE_CAPACITY
Push(q, v) == IF PushOk(q) THEN Append(q, v) ELSE q

\* q.pop(): Err(PopError) when empty, else the oldest element
PopOk(q) == Len(q) > 0

----------------------------------------------------------------------------
(* Initial states *)

TypeOK ==
    /\ queueInit \in BOOLEAN
    /\ queue \in Seq(Codes)
    /\ WAKER \in Tasks \cup {NoWaker}
    /\ ready \subseteq Tasks
    /\ running \in Tasks \cup {NoTask}
    /\ tpc \in [Tasks -> {"spawned", "L40", "L63", "L65", "L69", "L70",
                          "L72", "L44", "suspended"}]
    /\ held \in [Tasks -> Codes \cup {NoCode}]
    /\ lastPoll \in [Tasks -> {"none", "ready", "pending"}]
    /\ streams \in [Tasks -> BOOLEAN]
    /\ panicked \in BOOLEAN
    /\ ipc \in {"none", "L28", "L29", "L30", "L32", "L35"}
    /\ icode \in Codes \cup {NoCode}
    /\ calls \in 0..MaxCalls
    /\ diag \in Seq({"full", "uninit"})
    /\ pushed \in Seq(Codes)
    /\ delivered \in Seq(Codes)
    /\ irqSteps \in Nat
    /\ offered \in Seq(Codes)
    /\ resumed \in [Tasks -> BOOLEAN]
    /\ next \in Nat
    /\ results \in Seq(Int)

\* The frame allocator of a run that only exercises the keyboard path
NoAllocator ==
    /\ memory_map = <<>>
    /\ next = 0
    /\ results = <<>>
    /\ tables = <<>>
    /\ lastMap = [n |-> 0, page |-> <<>>, result |-> "none"]

\* A freshly constructed executor: no task, empty ready-queue and waker
\* cache.  kinds[id] is the behaviour of the task spawned as id, polled[id]
\* the number of times it was polled, wakes the number of waker invocations.
NewExecutor ==
    [pc |-> "setup", tasks |-> {}, ready_queue |-> <<>>, waker_cache |-> {},
     kinds |-> <<>>, polled |-> <<>>, wakes |-> 0]

\* The executor of a run that does not exercise it
NoExecutor == executor = NewExecutor

\* State after boot: the queue is uninitialised (line 21), WAKER is empty
\* (line 22), no task has been polled yet.
KbdBoot ==
    /\ queueInit = FALSE
    /\ queue = <<>>
    /\ WAKER = NoWaker
    /\ running = NoTask
    /\ tpc = [t \in Tasks |-> "spawned"]
    /\ held = [t \in Tasks |-> NoCode]
    /\ lastPoll = [t \in Tasks |-> "none"]
    /\ streams = [t \in Tasks |-> FALSE]
    /\ panicked = FALSE
    /\ ipc = "none"
    /\ icode = NoCode
    /\ calls = 0
    /\ diag = <<>>
    /\ pushed = <<>>
    /\ delivered = <<>>
    /\ irqSteps = 0
    /\ offered = <<>>
    /\ resumed = [t \in Tasks |-> FALSE]

\* Both print_keypresses tasks are spawned and due for a first poll.
KbdInit ==
    /\ ready = Tasks
    /\ KbdBoot

Init == KbdInit /\ NoAllocator /\ NoExecutor

\* A burst of interrupts: codes 1,2,1,2,... (any u8 pattern would do)
Burst(n) == [i \in 1..n |-> ((i - 1) % MaxCode) + 1]

\* A state the program reaches from Init: task 1 ran ScancodeStream::new
\* (line 40) and was then interrupted QUEUE_CAPACITY - Headroom times before
\* its first poll_next; every one of those pushes succeeded and found no
\* registered waker.  Task 2 has not been polled yet.
InitLoaded ==
    /\ queueInit = TRUE
    /\ queue = Burst(QUEUE_CAPACITY - Headroom)
    /\ WAKER = NoWaker
    /\ ready = {2}
    /\ running = 1
    /\ tpc = [t \in Tasks |-> IF t = 1 THEN "L63" ELSE "spawned"]
    /\ held = [t \in Tasks |-> NoCode]
    /\ lastPoll = [t \in Tasks |-> "none"]
    /\ streams = [t \in Tasks |-> t = 1]
    /\ panicked = FALSE
    /\ ipc = "none"
    /\ icode = NoCode
    /\ calls = 0
    /\ diag = <<>>
    /\ pushed = Burst(QUEUE_CAPACITY - Headroom)
    /\ delivered = <<>>
    /\ irqSteps = 0
    /\ offered = Burst(QUEUE_CAPACITY - Headroom)
    /\ resumed = [t \in Tasks |-> FALSE]
    /\ NoAllocator
    /\ NoExecutor

----------------------------------------------------------------------------
(* Interrupt side: add_scancode (keyboard.rs lines 27-37) *)

irqVars == <<ipc, icode, calls, diag, pushed, irqSteps, offered>>
taskVars == <<running, tpc, held, lastPoll, streams, panicked, delivered,
              resumed>>

\* println! as add_scancode needs it: the message goes to the console and
\* the call returns without waiting
println(log, msg) == Append(log, msg)

\* The keyboard interrupt fires and calls add_scancode(scancode).
\* It may preempt task code at any position; it does not nest.
Interrupt(scancode) ==
    /\ ipc = "none"
    /\ calls < MaxCalls
    /\ ipc' = "L28"
    /\ icode' = scancode
    /\ calls' = calls + 1
    /\ irqSteps' = 0
    /\ offered' = Append(offered, scancode)
    /\ UNCHANGED <<queueInit, queue, WAKER, ready, diag, pushed>>
    /\ UNCHANGED taskVars
    /\ UNCHANGED <<memVars, executor>>

\* mutant of add_scancode_L28: the producer initialises a missing queue
\* (get_or_init instead of try_get)
add_scancode_L28_GetOrInit ==
    /\ ipc = "L28"
    /\ ipc' = "L29"
    /\ queueInit' = TRUE
    /\ UNCHANGED <<queue, WAKER, ready, icode, diag, pushed>>

\* line 28: SCANCODE_QUEUE.try_get()
add_scancode_L28 ==
    /\ ipc = "L28"
    /\ ipc' = IF queueInit THEN "L29" ELSE "L35"
    /\ UNCHANGED <<queueInit, queue, WAKER, ready, icode, diag, pushed>>

\* mutant of add_scancode_L29: a full queue overwrites its oldest code
\* (force_push instead of push)
add_scancode_L29_Overwrite ==
    /\ ipc = "L29"
    /\ queue' = IF PushOk(queue)
                THEN Append(queue, icode)
                ELSE Append(Tail(queue), icode)
    /\ pushed' = IF PushOk(queue) THEN Append(pushed, icode) ELSE pushed
    /\ ipc' = IF PushOk(queue) THEN "L32" ELSE "L30"
    /\ UNCHANGED <<queueInit, WAKER, ready, icode, diag>>

\* mutant of add_scancode_L29: the push waits for a free slot
add_scancode_L29_Blocking ==
    /\ ipc = "L29"
    /\ PushOk(queue)
    /\ queue' = Append(queue, icode)
    /\ pushed' = Append(pushed, icode)
    /\ ipc' = "L32"
    /\ UNCHANGED <<queueInit, WAKER, ready, icode, diag>>

\* line 29: q.push(scancode)
add_scancode_L29 ==
    /\ ipc = "L29"
    /\ queue' = Push(queue, icode)
    /\ pushed' = IF PushOk(queue) THEN Append(pushed, icode) ELSE pushed
    /\ ipc' = IF PushOk(queue) THEN "L32" ELSE "L30"
    /\ UNCHANGED <<queueInit, WAKER, ready, icode, diag>>

\* line 30: println!("WARNING: scancode queue full, ..."), then return
add_scancode_L30 ==
    /\ ipc = "L30"
    /\ diag' = println(diag, "full")
    /\ ipc' = "none"
    /\ icode' = NoCode
    /\ UNCHANGED <<queueInit, queue, WAKER, ready, pushed>>

\* mutant of add_scancode_L32: the handler returns without waking
add_scancode_L32_NoWake ==
    /\ ipc = "L32"
    /\ ipc' = "none"
    /\ icode' = NoCode
    /\ UNCHANGED <<queueInit, queue, WAKER, ready, diag, pushed>>

\* line 32: WAKER.wake() takes the registered waker, if any, and wakes it
\* (the task is put back on the ready-queue); then return
add_scancode_L32 ==
    /\ ipc = "L32"
    /\ WAKER' = NoWaker
    /\ ready' = IF WAKER # NoWaker THEN ready \cup {WAKER} ELSE ready
    /\ ipc' = "none"
    /\ icode' = NoCode
    /\ UNCHANGED <<queueInit, queue, diag, pushed>>

\* line 35: println!("WARNING: scancode queue uninitialized."), then return
add_scancode_L35 ==
    /\ ipc = "L35"
    /\ diag' = println(diag, "uninit")
    /\ ipc' = "none"
    /\ icode' = NoCode
    /\ UNCHANGED <<queueInit, queue, WAKER, ready, pushed>>

\* One statement of the running add_scancode call.
add_scancode ==
    /\ ipc # "none"
    /\ \/ add_scancode_L28
       \/ add_scancode_L29
       \/ add_scancode_L30
       \/ add_scancode_L32
       \/ add_scancode_L35
    /\ irqSteps' = irqSteps + 1
    /\ calls' = calls
    /\ offered' = offered
    /\ UNCHANGED taskVars
    /\ UNCHANGED <<memVars, executor>>

----------------------------------------------------------------------------
(* Task side *)

\* Task code runs only while no interrupt handler is active and no panic
\* has halted the machine (main.rs lines 68-71: the handler loops forever).
TaskMayRun == ipc = "none" /\ ~panicked

\* The executor takes a ready task and polls it.  A task polled for the
\* first time starts print_keypresses at line 40; a suspended one resumes at
\* its await (line 43), which calls poll_next again.
ExecutorPoll(t) ==
    /\ TaskMayRun
    /\ running = NoTask
    /\ t \in ready
    /\ tpc[t] \in {"spawned", "suspended"}
    /\ ready' = ready \ {t}
    /\ running' = t
    /\ tpc' = [tpc EXCEPT ![t] = IF tpc[t] = "spawned" THEN "L40" ELSE "L63"]
    /\ resumed' = [resumed EXCEPT ![t] = (tpc[t] = "suspended")]
    /\ UNCHANGED <<queueInit, queue, WAKER, held, lastPoll, streams, panicked,
                   delivered>>
    /\ UNCHANGED irqVars
    /\ UNCHANGED <<memVars, executor>>

\* mutant of ScancodeStream_new: a later call replaces the queue by a fresh
\* one and returns a stream
ScancodeStream_new_Reinit(t) ==
    /\ TaskMayRun
    /\ running = t
    /\ tpc[t] = "L40"
    /\ queueInit' = TRUE
    /\ queue' = <<>>
    /\ streams' = [streams EXCEPT ![t] = TRUE]
    /\ tpc' = [tpc EXCEPT ![t] = "L63"]
    /\ UNCHANGED panicked
    /\ UNCHANGED <<WAKER, ready, running, held, lastPoll, delivered, resumed>>
    /\ UNCHANGED irqVars
    /\ UNCHANGED <<memVars, executor>>

\* mutant of ScancodeStream_new: the stream value is handed out without
\* initialising the queue
ScancodeStream_new_NoInit(t) ==
    /\ TaskMayRun
    /\ running = t
    /\ tpc[t] = "L40"
    /\ streams' = [streams EXCEPT ![t] = TRUE]
    /\ tpc' = [tpc EXCEPT ![t] = "L63"]
    /\ UNCHANGED <<queueInit, queue, panicked>>
    /\ UNCHANGED <<WAKER, ready, running, held, lastPoll, delivered, resumed>>
    /\ UNCHANGED irqVars
    /\ UNCHANGED <<memVars, executor>>

\* ScancodeStream::new (lines 81-85), called at line 40.
\* try_init_once fails when the cell is already initialised; expect panics.
ScancodeStream_new(t) ==
    /\ TaskMayRun
    /\ running = t
    /\ tpc[t] = "L40"
    /\ IF ~queueInit
       THEN /\ queueInit' = TRUE
            /\ queue' = <<>>
            /\ streams' = [streams EXCEPT ![t] = TRUE]
            /\ tpc' = [tpc EXCEPT ![t] = "L63"]
            /\ UNCHANGED panicked
       ELSE /\ panicked' = TRUE
            /\ UNCHANGED <<queueInit, queue, streams, tpc>>
    /\ UNCHANGED <<WAKER, ready, running, held, lastPoll, delivered, resumed>>
    /\ UNCHANGED irqVars
    /\ UNCHANGED <<memVars, executor>>

\* line 63: SCANCODE_QUEUE.try_get().expect("not initialized")
poll_next_L63(t) ==
    /\ tpc[t] = "L63"
    /\ IF queueInit
       THEN tpc' = [tpc EXCEPT ![t] = "L65"] /\ UNCHANGED panicked
       ELSE panicked' = TRUE /\ UNCHANGED tpc
    /\ UNCHANGED <<queue, WAKER, running, held, lastPoll, delivered>>

\* mutant of poll_next_L65: the first pop returns the oldest code but
\* leaves it in the queue
poll_next_L65_Peek(t) ==
    /\ tpc[t] = "L65"
    /\ IF PopOk(queue)
       THEN /\ delivered' = Append(delivered, Head(queue))
            /\ lastPoll' = [lastPoll EXCEPT ![t] = "ready"]
            /\ tpc' = [tpc EXCEPT ![t] = "L44"]
            /\ UNCHANGED queue
       ELSE /\ tpc' = [tpc EXCEPT ![t] = "L69"]
            /\ UNCHANGED <<queue, delivered, lastPoll>>
    /\ UNCHANGED <<WAKER, running, held, panicked>>

\* lines 65-67: first pop; a value is returned at once as Ready(Some(_))
poll_next_L65(t) ==
    /\ tpc[t] = "L65"
    /\ IF PopOk(queue)
       THEN /\ queue' = Tail(queue)
            /\ delivered' = Append(delivered, Head(queue))
            /\ lastPoll' = [lastPoll EXCEPT ![t] = "ready"]
            /\ tpc' = [tpc EXCEPT ![t] = "L44"]
       ELSE /\ tpc' = [tpc EXCEPT ![t] = "L69"]
            /\ UNCHANGED <<queue, delivered, lastPoll>>
    /\ UNCHANGED <<WAKER, running, held, panicked>>

\* mutant of poll_next_L69: the waker is not registered
poll_next_L69_NoRegister(t) ==
    /\ tpc[t] = "L69"
    /\ tpc' = [tpc EXCEPT ![t] = "L70"]
    /\ UNCHANGED <<queue, WAKER, running, held, lastPoll, panicked, delivered>>

\* line 69: WAKER.register(&cx.waker()) overwrites the registered waker
poll_next_L69(t) ==
    /\ tpc[t] = "L69"
    /\ WAKER' = t
    /\ tpc' = [tpc EXCEPT ![t] = "L70"]
    /\ UNCHANGED <<queue, running, held, lastPoll, panicked, delivered>>

\* mutant of poll_next_L70: no second pop after the registration, the poll
\* reports Pending at once
poll_next_L70_NoRecheck(t) ==
    /\ tpc[t] = "L70"
    /\ lastPoll' = [lastPoll EXCEPT ![t] = "pending"]
    /\ tpc' = [tpc EXCEPT ![t] = "suspended"]
    /\ running' = NoTask
    /\ UNCHANGED <<queue, held>>
    /\ UNCHANGED <<WAKER, panicked, delivered>>

\* mutant of poll_next_L70: an empty second pop ends the stream with
\* Poll::Ready(None), so the while-let loop exits and the task completes
poll_next_L70_EndOfStream(t) ==
    /\ tpc[t] = "L70"
    /\ IF PopOk(queue)
       THEN /\ queue' = Tail(queue)
            /\ held' = [held EXCEPT ![t] = Head(queue)]
            /\ tpc' = [tpc EXCEPT ![t] = "L72"]
            /\ UNCHANGED <<lastPoll, running>>
       ELSE /\ lastPoll' = [lastPoll EXCEPT ![t] = "ready"]
            /\ tpc' = [tpc EXCEPT ![t] = "completed"]
            /\ running' = NoTask
            /\ UNCHANGED <<queue, held>>
    /\ UNCHANGED <<WAKER, panicked, delivered>>

\* lines 70, 75: second pop; Err(PopError) => Poll::Pending, the task is
\* suspended and control returns to the executor
poll_next_L70(t) ==
    /\ tpc[t] = "L70"
    /\ IF PopOk(queue)
       THEN /\ queue' = Tail(queue)
            /\ held' = [held EXCEPT ![t] = Head(queue)]
            /\ tpc' = [tpc EXCEPT ![t] = "L72"]
            /\ UNCHANGED <<lastPoll, running>>
       ELSE /\ lastPoll' = [lastPoll EXCEPT ![t] = "pending"]
            /\ tpc' = [tpc EXCEPT ![t] = "suspended"]
            /\ running' = NoTask
            /\ UNCHANGED <<queue, held>>
    /\ UNCHANGED <<WAKER, panicked, delivered>>

\* mutant of poll_next_L72: the registered waker is left in place
poll_next_L72_NoTake(t) ==
    /\ tpc[t] = "L72"
    /\ delivered' = Append(delivered, held[t])
    /\ held' = [held EXCEPT ![t] = NoCode]
    /\ lastPoll' = [lastPoll EXCEPT ![t] = "ready"]
    /\ tpc' = [tpc EXCEPT ![t] = "L44"]
    /\ UNCHANGED <<queue, WAKER, running, panicked>>

\* lines 72-73: WAKER.take() drops the registered waker without waking it;
\* Poll::Ready(Some(scancode))
poll_next_L72(t) ==
    /\ tpc[t] = "L72"
    /\ WAKER' = NoWaker
    /\ delivered' = Append(delivered, held[t])
    /\ held' = [held EXCEPT ![t] = NoCode]
    /\ lastPoll' = [lastPoll EXCEPT ![t] = "ready"]
    /\ tpc' = [tpc EXCEPT ![t] = "L44"]
    /\ UNCHANGED <<queue, running, panicked>>

\* One statement of ScancodeStream::poll_next (lines 62-77) in task t.
poll_next(t) ==
    /\ TaskMayRun
    /\ running = t
    /\ \/ poll_next_L63(t)
       \/ poll_next_L65(t)
       \/ poll_next_L69(t)
       \/ poll_next_L70(t)
       \/ poll_next_L72(t)
    /\ UNCHANGED <<queueInit, ready, streams, resumed>>
    /\ UNCHANGED irqVars
    /\ UNCHANGED <<memVars, executor>>

\* print_keypresses lines 43-52: the body of the while loop decodes the
\* scancode, prints the key, and calls scancodes.next() again.
print_keypresses(t) ==
    /\ TaskMayRun
    /\ running = t
    /\ tpc[t] = "L44"
    /\ tpc' = [tpc EXCEPT ![t] = "L63"]
    /\ resumed' = [resumed EXCEPT ![t] = FALSE]
    /\ UNCHANGED <<queueInit, queue, WAKER, ready, running, held, lastPoll,
                   streams, panicked, delivered>>
    /\ UNCHANGED irqVars
    /\ UNCHANGED <<memVars, executor>>

----------------------------------------------------------------------------
(* Specifications *)

Next ==
    \/ \E scancode \in Codes : Interrupt(scancode)
    \/ add_scancode
    \/ \E t \in Tasks : ExecutorPoll(t)
    \/ \E t \in Tasks : ScancodeStream_new(t)
    \/ \E t \in Tasks : poll_next(t)
    \/ \E t \in Tasks : print_keypresses(t)

\* from boot
Spec == Init /\ [][Next]_vars

\* from a state with an almost full queue
SpecLoaded == InitLoaded /\ [][Next]_vars

\* both of the above
SpecAll == (Init \/ InitLoaded) /\ [][Next]_vars

\* Only one print_keypresses task is spawned.
InitSingle ==
    /\ ready = {1}
    /\ KbdBoot
    /\ NoAllocator
    /\ NoExecutor

\* Scheduling of the machine: a running interrupt handler runs on, a task
\* that is being polled runs on until it suspends, and the executor
\* eventually polls a task whose waker was woken.
Fairness ==
    /\ WF_vars(add_scancode)
    /\ \A t \in Tasks :
        /\ WF_vars(ExecutorPoll(t))
        /\ WF_vars(ScancodeStream_new(t))
        /\ WF_vars(poll_next(t))
        /\ WF_vars(print_keypresses(t))

SpecLive == InitSingle /\ [][Next]_vars /\ Fairness

----------------------------------------------------------------------------
(* Physical frame allocator (memory.rs lines 20-46, 88-94) *)

\* Size4KiB
PAGE_SIZE == 4096

\* Option::None of allocate_frame
NoFrame == -1

\* MemoryRegionType: Usable and one of the other classifications
RegionTypes == {"Usable", "Reserved"}

\* bootloader MemoryRegion: a frame range [start_frame_number,
\* end_frame_number) and its region_type
Regions ==
    {r \in [start_frame_number : 0..MaxFrameNo,
            end_frame_number : 0..MaxFrameNo,
            region_type : RegionTypes] :
        r.start_frame_number <= r.end_frame_number}

\* r.range.start_addr(), r.range.end_addr()
start_addr(r) == r.start_frame_number * PAGE_SIZE
end_addr(r) == r.end_frame_number * PAGE_SIZE

\* PhysFrame::containing_address: the address rounded down to 4 KiB
containing_address(addr) == addr - (addr % PAGE_SIZE)

\* mutant of RegionFrames: the end address is taken as inclusive
RegionFrames_Inclusive(r) ==
    LET len == end_addr(r) - start_addr(r)
        n == (len \div PAGE_SIZE) + 1
    IN  [k \in 1..n |-> containing_address(start_addr(r) + (k - 1) * PAGE_SIZE)]

\* (start..end).step_by(4096), each address mapped to its frame (lines 42-44)
RegionFrames(r) ==
    LET len == end_addr(r) - start_addr(r)
        n == (len + PAGE_SIZE - 1) \div PAGE_SIZE
    IN  [k \in 1..n |-> containing_address(start_addr(r) + (k - 1) * PAGE_SIZE)]

\* usable_frames (lines 38-45): the usable regions, in map order, flattened
RECURSIVE usable_frames(_)
usable_frames(mm) ==
    IF mm = <<>>
    THEN <<>>
    ELSE (IF Head(mm).region_type = "Usable"
          THEN RegionFrames(Head(mm))
          ELSE <<>>) \o usable_frames(Tail(mm))

\* mutant of nth: the cursor is ignored and the first element is taken
nth_First(seq, n) == IF 0 < Len(seq) THEN seq[1] ELSE NoFrame

\* Iterator::nth(n): the element at zero-based position n, if any
nth(seq, n) == IF n < Len(seq) THEN seq[n + 1] ELSE NoFrame

\* allocate_frame explored for one call past every possible supply
MaxAllocs == MaxRegions * MaxFrameNo + 2

\* mutant of allocate_frame: the cursor starts over once the supply is
\* exhausted
allocate_frame_Wrap ==
    /\ Len(results) < MaxAllocs
    /\ LET frame == nth(usable_frames(memory_map), next)
       IN  /\ results' = Append(results, frame)
           /\ next' = IF frame = NoFrame THEN 0 ELSE next + 1
    /\ UNCHANGED <<memory_map, tables, lastMap>>
    /\ UNCHANGED <<kbdVars, executor>>

\* mutant of allocate_frame: the cursor advances only when a frame is
\* handed out
allocate_frame_AdvanceOnSome ==
    /\ Len(results) < MaxAllocs
    /\ LET frame == nth(usable_frames(memory_map), next)
       IN  /\ results' = Append(results, frame)
           /\ next' = IF frame = NoFrame THEN next ELSE next + 1
    /\ UNCHANGED <<memory_map, tables, lastMap>>
    /\ UNCHANGED <<kbdVars, executor>>

\* mutant of allocate_frame: the cursor is not advanced
allocate_frame_NoAdvance ==
    /\ Len(results) < MaxAllocs
    /\ LET frame == nth(usable_frames(memory_map), next)
       IN  results' = Append(results, frame)
    /\ next' = next
    /\ UNCHANGED <<memory_map, tables, lastMap>>
    /\ UNCHANGED <<kbdVars, executor>>

\* allocate_frame (lines 89-93)
allocate_frame ==
    /\ next < MaxAllocs
    /\ LET frame == nth(usable_frames(memory_map), next)
       IN  results' = Append(results, frame)
    /\ next' = next + 1
    /\ UNCHANGED <<memory_map, tables, lastMap>>
    /\ UNCHANGED <<kbdVars, executor>>

MemoryMaps == UNION {[1..n -> Regions] : n \in 0..MaxRegions}

\* BootInfoFrameAllocator::init (lines 30-35) on a boot memory map
AllocInit ==
    /\ KbdInit
    /\ NoExecutor
    /\ memory_map \in MemoryMaps
    /\ next = 0
    /\ results = <<>>
    /\ tables = <<>>
    /\ lastMap = [n |-> 0, page |-> <<>>, result |-> "none"]

AllocNext == allocate_frame

SpecAlloc == AllocInit /\ [][AllocNext]_vars

----------------------------------------------------------------------------
(* Address space mapper (memory.rs lines 48-86) *)

\* physical frame of the active level 4 table (Cr3::read, line 63); it and
\* the tables the bootloader built lie outside the usable regions
CR3 == (MaxFrameNo + 1) * PAGE_SIZE
BootP3 == (MaxFrameNo + 2) * PAGE_SIZE
BootP2 == (MaxFrameNo + 3) * PAGE_SIZE
BootP1 == (MaxFrameNo + 4) * PAGE_SIZE
\* frame of a page the bootloader mapped
BootFrame == (MaxFrameNo + 5) * PAGE_SIZE

\* PhysFrame::containing_address(PhysAddr::new(0xb8000)) (line 79)
VGA_FRAME == containing_address(753664)

\* Flags::PRESENT | Flags::WRITABLE (line 80)
PRESENT_WRITABLE == {"PRESENT", "WRITABLE"}

Indices == 0..(TableEntries - 1)

\* a virtual page: its level 4, 3, 2 and 1 table indices
Pages == Indices \X Indices \X Indices \X Indices

\* a page table entry: frame address and flags; the all-zero entry is unused
UnusedEntry == [frame |-> 0, flags |-> {}]
is_unused(e) == e = UnusedEntry

\* PageTable::zero
ZeroTable == [i \in Indices |-> UnusedEntry]

\* entry.set_frame(frame, flags) on entry idx of the table in frame tf
set_frame(tb, tf, idx, frame, flags) ==
    [tb EXCEPT ![tf] = [@ EXCEPT ![idx] = [frame |-> frame, flags |-> flags]]]

\* create_next_table of the mapper: an unused entry gets a fresh frame from
\* the frame allocator as a present and writable sub-table, which is then
\* zeroed; a used entry is followed.  st carries the page tables, the
\* allocator cursor, the allocator's results and the error raised so far.
create_next_table(st, tf, idx) ==
    IF st.err # "Ok"
    THEN st
    ELSE IF is_unused(st.tables[tf][idx])
    THEN LET frame == nth(usable_frames(memory_map), st.next)
         IN  IF frame = NoFrame
             THEN [st EXCEPT !.next = @ + 1,
                             !.results = Append(@, NoFrame),
                             !.err = "FrameAllocationFailed"]
             ELSE LET linked == set_frame(st.tables, tf, idx, frame,
                                          PRESENT_WRITABLE)
                  IN  [tables |-> [f \in DOMAIN linked \cup {frame} |->
                                     IF f = frame THEN ZeroTable
                                     ELSE linked[f]],
                       next |-> st.next + 1,
                       results |-> Append(st.results, frame),
                       err |-> "Ok",
                       child |-> frame]
    ELSE [st EXCEPT !.child = st.tables[tf][idx].frame]

\* Mapper::map_to for a 4 KiB page: walk, or create, the level 3, 2 and 1
\* tables, then write the leaf entry unless it is already in use
map_to(tb, nx, rs, page, frame, flags) ==
    LET s4 == [tables |-> tb, next |-> nx, results |-> rs, err |-> "Ok",
               child |-> CR3]
        s3 == create_next_table(s4, CR3, page[1])
        s2 == create_next_table(s3, s3.child, page[2])
        s1 == create_next_table(s2, s2.child, page[3])
    IN  IF s1.err # "Ok"
        THEN s1
        ELSE IF ~is_unused(s1.tables[s1.child][page[4]])
        THEN [s1 EXCEPT !.err = "PageAlreadyMapped"]
        ELSE [s1 EXCEPT !.tables = set_frame(s1.tables, s1.child, page[4],
                                             frame, flags)]

\* Translate::translate: walk the four levels; an entry that is not present
\* ends the walk with NotMapped
NotMapped == [frame |-> NoFrame, flags |-> {}]

RECURSIVE Walk(_, _, _, _)
Walk(tb, tf, page, level) ==
    LET e == tb[tf][page[5 - level]]
    IN  IF "PRESENT" \notin e.flags
        THEN NotMapped
        ELSE IF level = 1
        THEN e
        ELSE Walk(tb, e.frame, page, level - 1)

translate(tb, page) == Walk(tb, CR3, page, 4)

\* mutant of create_example_mapping: the page is mapped read-only
create_example_mapping_ReadOnly(page) ==
    /\ lastMap.result \in {"none", "Ok"}
    /\ lastMap.n < MaxMaps
    /\ LET frame == VGA_FRAME
           flags == {"PRESENT"}
           map_to_result == map_to(tables, next, results, page, frame, flags)
       IN  /\ tables' = map_to_result.tables
           /\ next' = map_to_result.next
           /\ results' = map_to_result.results
           /\ lastMap' = [n |-> lastMap.n + 1, page |-> page,
                          result |-> map_to_result.err]
    /\ UNCHANGED memory_map
    /\ UNCHANGED <<kbdVars, executor>>

\* mutant of create_example_mapping: the result of map_to is dropped instead
\* of being unwrapped with expect, so the caller carries on after an error
create_example_mapping_IgnoreError(page) ==
    /\ lastMap.n < MaxMaps
    /\ LET frame == VGA_FRAME
           flags == PRESENT_WRITABLE
           map_to_result == map_to(tables, next, results, page, frame, flags)
       IN  /\ tables' = map_to_result.tables
           /\ next' = map_to_result.next
           /\ results' = map_to_result.results
           /\ lastMap' = [n |-> lastMap.n + 1, page |-> page,
                          result |-> map_to_result.err]
    /\ UNCHANGED memory_map
    /\ UNCHANGED <<kbdVars, executor>>

\* create_example_mapping (lines 72-86): map the page to the VGA frame;
\* expect("map_to failed") panics on an error, which ends the run
create_example_mapping(page) ==
    /\ lastMap.result \in {"none", "Ok"}
    /\ lastMap.n < MaxMaps
    /\ LET frame == VGA_FRAME
           flags == PRESENT_WRITABLE
           map_to_result == map_to(tables, next, results, page, frame, flags)
       IN  /\ tables' = map_to_result.tables
           /\ next' = map_to_result.next
           /\ results' = map_to_result.results
           /\ lastMap' = [n |-> lastMap.n + 1, page |-> page,
                          result |-> map_to_result.err]
    /\ UNCHANGED memory_map
    /\ UNCHANGED <<kbdVars, executor>>

\* memory maps as the bootloader hands them over: regions in ascending,
\* non-overlapping address order
ValidMemoryMaps ==
    {mm \in MemoryMaps :
        \A i \in 1..Len(mm) - 1 :
            mm[i].end_frame_number <= mm[i + 1].start_frame_number}

\* the address space at the time of memory::init (lines 52-55): the active
\* level 4 table, either empty or with the one page <<0, 0, 0, 0>> mapped by
\* the bootloader
BootTables ==
    { (CR3 :> ZeroTable),
      (CR3 :> [ZeroTable EXCEPT ![0] = [frame |-> BootP3,
                                        flags |-> PRESENT_WRITABLE]])
      @@ (BootP3 :> [ZeroTable EXCEPT ![0] = [frame |-> BootP2,
                                              flags |-> PRESENT_WRITABLE]])
      @@ (BootP2 :> [ZeroTable EXCEPT ![0] = [frame |-> BootP1,
                                              flags |-> PRESENT_WRITABLE]])
      @@ (BootP1 :> [ZeroTable EXCEPT ![0] = [frame |-> BootFrame,
                                              flags |-> {"PRESENT"}]]) }

MapInit ==
    /\ KbdInit
    /\ NoExecutor
    /\ memory_map \in {mm \in ValidMemoryMaps : Len(mm) <= 1}
    /\ next = 0
    /\ results = <<>>
    /\ tables \in BootTables
    /\ lastMap = [n |-> 0, page |-> <<>>, result |-> "none"]

\* the pages passed to create_example_mapping: first and last index at
\* every level
MapPages == {page \in Pages :
                \A l \in 1..4 : page[l] \in {0, TableEntries - 1}}

MapNext == \E page \in MapPages : create_example_mapping(page)

SpecMap == MapInit /\ [][MapNext]_vars

----------------------------------------------------------------------------
(* Executor: cooperative scheduler *)

\* what a task's poll step reports: a task that completes on its first poll,
\* and one that always reports not-ready
TaskKinds == {"completes", "never"}

\* mutant of spawn: the identity is not pushed onto the ready-queue
spawn_NoEnqueue(kind) ==
    /\ executor.pc = "setup"
    /\ Len(executor.kinds) < MaxTasks
    /\ LET id == Len(executor.kinds) + 1
       IN  executor' = [executor EXCEPT
                !.tasks = @ \cup {id},
                !.kinds = Append(@, kind),
                !.polled = Append(@, 0)]
    /\ UNCHANGED <<kbdVars, memVars>>

\* spawn(task): a fresh identity, the task enters the task set and its
\* identity the ready-queue
spawn(kind) ==
    /\ executor.pc = "setup"
    /\ Len(executor.kinds) < MaxTasks
    /\ LET id == Len(executor.kinds) + 1
       IN  executor' = [executor EXCEPT
                !.tasks = @ \cup {id},
                !.ready_queue = Append(@, id),
                !.kinds = Append(@, kind),
                !.polled = Append(@, 0)]
    /\ UNCHANGED <<kbdVars, memVars>>

\* run(): the executor enters its loop; no task is spawned afterwards
run ==
    /\ executor.pc = "setup"
    /\ executor' = [executor EXCEPT !.pc = "drain"]
    /\ UNCHANGED <<kbdVars, memVars>>

\* mutant of run_ready_task: a completed task stays in the task set and
\* keeps its cached waker
run_ready_task_KeepCompleted ==
    /\ executor.pc = "drain"
    /\ executor.ready_queue # <<>>
    /\ LET id == Head(executor.ready_queue)
       IN  IF id \notin executor.tasks
           THEN executor' = [executor EXCEPT !.ready_queue = Tail(@)]
           ELSE executor' = [executor EXCEPT
                    !.ready_queue = Tail(@),
                    !.waker_cache = @ \cup {id},
                    !.polled = [@ EXCEPT ![id] = @ + 1]]
    /\ UNCHANGED <<kbdVars, memVars>>

\* one iteration of the drain: take an identity from the ready-queue; skip
\* it when the task is gone; otherwise take or create its cached waker and
\* poll the task once; a task that reports its result is removed together
\* with its cached waker
run_ready_task ==
    /\ executor.pc = "drain"
    /\ executor.ready_queue # <<>>
    /\ LET id == Head(executor.ready_queue)
       IN  IF id \notin executor.tasks
           THEN executor' = [executor EXCEPT !.ready_queue = Tail(@)]
           ELSE IF executor.kinds[id] = "completes"
           THEN executor' = [executor EXCEPT
                    !.ready_queue = Tail(@),
                    !.tasks = @ \ {id},
                    !.waker_cache = @ \ {id},
                    !.polled = [@ EXCEPT ![id] = @ + 1]]
           ELSE executor' = [executor EXCEPT
                    !.ready_queue = Tail(@),
                    !.waker_cache = @ \cup {id},
                    !.polled = [@ EXCEPT ![id] = @ + 1]]
    /\ UNCHANGED <<kbdVars, memVars>>

\* after the drain: with an empty ready-queue the processor is parked
sleep_if_idle ==
    /\ executor.pc = "drain"
    /\ executor.ready_queue = <<>>
    /\ executor' = [executor EXCEPT !.pc = "parked"]
    /\ UNCHANGED <<kbdVars, memVars>>

\* a waker that was handed to a poll is invoked, possibly from an interrupt
\* and possibly for a task that is gone: the identity is pushed onto the
\* ready-queue, and a parked processor resumes the loop
wake(id) ==
    /\ executor.pc \in {"drain", "parked"}
    /\ executor.wakes < MaxWakes
    /\ id \in 1..Len(executor.kinds)
    /\ executor.polled[id] > 0
    /\ executor' = [executor EXCEPT
            !.ready_queue = Append(@, id),
            !.wakes = @ + 1,
            !.pc = "drain"]
    /\ UNCHANGED <<kbdVars, memVars>>

ExecInit ==
    /\ KbdInit
    /\ NoAllocator
    /\ executor = NewExecutor

ExecNext ==
    \/ \E kind \in TaskKinds : spawn(kind)
    \/ run
    \/ run_ready_task
    \/ sleep_if_idle
    \/ \E id \in 1..MaxTasks : wake(id)

SpecExec == ExecInit /\ [][ExecNext]_vars

----------------------------------------------------------------------------
(* Properties *)

\* the code poll_next holds in its local between the second pop and return
InFlight ==
    IF running # NoTask /\ held[running] # NoCode
    THEN <<held[running]>>
    ELSE <<>>

\* C1: no missed wakeup.  Whenever a task is suspended on a Pending result
\* of poll_next and the queue holds a code (add_scancode not being in the
\* middle of a call), the waker that poll registered has been woken: the
\* task is on the ready-queue.  A push that lands between the first and the
\* second pop therefore never leaves the consumer asleep.
C1_NoMissedWakeup ==
    \A t \in Tasks :
        (ipc = "none" /\ tpc[t] = "suspended" /\ lastPoll[t] = "pending"
            /\ queue # <<>>)
        => t \in ready

\* a suspended consumer, a published code, and the wake that was issued
C1_Witness ==
    \E t \in Tasks :
        /\ ipc = "none"
        /\ tpc[t] = "suspended"
        /\ lastPoll[t] = "pending"
        /\ queue # <<>>
        /\ t \in ready
        /\ WAKER = NoWaker

\* C2: FIFO, exactly-once delivery.  The codes returned as Ready(Some(_)),
\* followed by the code poll_next is about to return and by the queue
\* contents, are exactly the codes that were successfully pushed, in push
\* order; so the delivered codes are a prefix of the pushed ones, and once
\* the queue is drained every pushed code was delivered once, in order.
C2_FifoExactlyOnce ==
    /\ delivered \o InFlight \o queue = pushed
    /\ Len(delivered) <= Len(pushed)
    /\ \A i \in 1..Len(delivered) : delivered[i] = pushed[i]

\* two different codes were published and drained in publication order
C2_Witness ==
    /\ Len(delivered) >= 2
    /\ delivered[1] # delivered[2]
    /\ queue = <<>>
    /\ delivered = pushed

\* the map lists its regions in ascending, non-overlapping address order
MapInAddressOrder ==
    \A i \in 1..Len(memory_map) - 1 :
        memory_map[i].end_frame_number <= memory_map[i + 1].start_frame_number

\* some usable region contains the frame
InUsableRegion(f) ==
    \E i \in 1..Len(memory_map) :
        /\ memory_map[i].region_type = "Usable"
        /\ start_addr(memory_map[i]) <= f
        /\ f < end_addr(memory_map[i])

\* the enumeration of the claim, written without the iterator chain: frame
\* k of region i comes after all frames of the usable regions before i
RECURSIVE FramesBefore(_)
FramesBefore(i) ==
    IF i <= 1
    THEN 0
    ELSE FramesBefore(i - 1)
         + (IF memory_map[i - 1].region_type = "Usable"
            THEN memory_map[i - 1].end_frame_number
                 - memory_map[i - 1].start_frame_number
            ELSE 0)

UsableCount == FramesBefore(Len(memory_map) + 1)

Min(a, b) == IF a <= b THEN a ELSE b

\* C4: overflow drops the newest code and never overwrites.  A push on a
\* queue holding QUEUE_CAPACITY codes leaves contents and order unchanged and
\* leads to exactly one "queue full" diagnostic for that call; the queue
\* never holds more than QUEUE_CAPACITY codes; and codes published without
\* any drain leave the first QUEUE_CAPACITY of them in the queue, oldest
\* first, with one diagnostic per code beyond the capacity.
C4_OverflowDropsNewest ==
    /\ [](Len(queue) <= QUEUE_CAPACITY)
    /\ [][(ipc = "L29" /\ Len(queue) = QUEUE_CAPACITY /\ ipc' # ipc)
            => (queue' = queue /\ pushed' = pushed /\ diag' = diag
                /\ ipc' = "L30")]_vars
    /\ [][(ipc = "L30" /\ ipc' # ipc)
            => (queue' = queue /\ diag' = Append(diag, "full")
                /\ ipc' = "none")]_vars
    /\ [](ipc = "none" => Len(diag) = Len(offered) - Len(pushed))
    /\ []((ipc = "none" /\ delivered = <<>> /\ InFlight = <<>>)
            => /\ queue = SubSeq(offered, 1,
                                 Min(Len(offered), QUEUE_CAPACITY))
               /\ diag = [i \in 1..(Len(offered) - Len(queue)) |-> "full"])

\* more codes than the capacity were published before any drain
C4_Witness ==
    /\ ipc = "none"
    /\ delivered = <<>>
    /\ InFlight = <<>>
    /\ Len(offered) > QUEUE_CAPACITY
    /\ Len(queue) = QUEUE_CAPACITY
    /\ Len(diag) = Len(offered) - QUEUE_CAPACITY
    /\ queue = SubSeq(offered, 1, QUEUE_CAPACITY)

\* C5: a call of add_scancode whose push succeeds pushes first, then wakes
\* the registered waker (if any) and only then returns; a call whose push
\* fails or that finds the queue uninitialised issues no wake and leaves the
\* registered waker in place.
C5_WakeAfterPush ==
    /\ [][(ipc = "L29" /\ Len(queue) < QUEUE_CAPACITY /\ ipc' # ipc)
            => (queue' = Append(queue, icode) /\ ipc' = "L32"
                /\ WAKER' = WAKER /\ ready' = ready)]_vars
    /\ [](ipc = "L32" => (queue # <<>> /\ queue[Len(queue)] = icode))
    /\ [][(ipc = "L32" /\ ipc' # ipc)
            => (ipc' = "none" /\ queue' = queue /\ WAKER' = NoWaker
                /\ ready' = IF WAKER # NoWaker
                            THEN ready \cup {WAKER}
                            ELSE ready)]_vars
    /\ [][(ipc \in {"L28", "L29", "L30", "L35"} /\ ipc' # ipc)
            => (WAKER' = WAKER /\ ready' = ready /\ ipc' # "L28")]_vars
    /\ [][(ipc # "none" /\ ipc' = "none")
            => ipc \in {"L30", "L32", "L35"}]_vars

\* the handler pushed a code and woke the suspended consumer's waker
C5_Witness ==
    /\ ipc = "none"
    /\ Len(pushed) = 1
    /\ Len(queue) = 1
    /\ WAKER = NoWaker
    /\ \E t \in Tasks :
        tpc[t] = "suspended" /\ lastPoll[t] = "pending" /\ ready = {t}

\* C6: under fair scheduling every code accepted by the queue is eventually
\* returned by poll_next; and the poll_next call that follows a Pending
\* result and finds a published code returns Ready with the oldest
\* published code at its first pop, while Pending is only returned on an
\* empty queue.
C6_EventualDelivery ==
    /\ \A n \in 1..MaxCalls : (Len(pushed) >= n) ~> (Len(delivered) >= n)
    /\ [][\A t \in Tasks :
            (resumed[t] /\ running = t /\ tpc[t] \in {"L63", "L65"}
                /\ queue # <<>> /\ tpc'[t] # tpc[t])
            => \/ tpc[t] = "L63" /\ tpc'[t] = "L65" /\ queue' = queue
               \/ /\ tpc[t] = "L65"
                  /\ tpc'[t] = "L44"
                  /\ lastPoll'[t] = "ready"
                  /\ delivered' = Append(delivered, Head(queue))]_vars
    /\ [][\A t \in Tasks :
            (tpc[t] # "suspended" /\ tpc'[t] = "suspended")
            => (queue = <<>> /\ lastPoll'[t] = "pending")]_vars

\* the consumer, polled again after a wake, returned the published code
C6_Witness ==
    /\ resumed[1]
    /\ tpc[1] = "L44"
    /\ lastPoll[1] = "ready"
    /\ delivered # <<>>
    /\ delivered = pushed

\* C7: the queue is created exactly once.  The first ScancodeStream::new
\* initialises the (empty) queue and returns a stream; every later call
\* panics, returns no stream and leaves the queue, its contents and the
\* registered waker unchanged; the queue is never un-initialised.
C7_CreatedOnce ==
    /\ [][\A t \in Tasks :
            (running = t /\ tpc[t] = "L40" /\ ipc = "none" /\ ipc' = "none"
                /\ ~panicked /\ (tpc'[t] # "L40" \/ panicked'))
            => IF queueInit
               THEN /\ panicked'
                    /\ streams' = streams
                    /\ queueInit'
                    /\ queue' = queue
                    /\ WAKER' = WAKER
                    /\ tpc'[t] = "L40"
               ELSE /\ ~panicked'
                    /\ queueInit'
                    /\ queue' = <<>>
                    /\ streams' = [streams EXCEPT ![t] = TRUE]
                    /\ tpc'[t] = "L63"]_vars
    /\ [](Cardinality({t \in Tasks : streams[t]}) <= 1)
    /\ [](queueInit <=> \E t \in Tasks : streams[t])
    /\ [][queueInit => queueInit']_vars

\* a second construction panicked while the first stream's waker was
\* registered
C7_Witness ==
    /\ panicked
    /\ queueInit
    /\ Cardinality({t \in Tasks : streams[t]}) = 1
    /\ WAKER # NoWaker
    /\ \E t \in Tasks : running = t /\ tpc[t] = "L40" /\ ~streams[t]

\* C8: add_scancode on an uninitialised queue prints one diagnostic, drops
\* the code, wakes nobody and returns; it never initialises the queue; the
\* codes published before ScancodeStream::new are not among the pushed
\* codes, hence never delivered.
C8_UninitDrops ==
    /\ [][(ipc = "L28" /\ ~queueInit /\ ipc' # ipc)
            => (ipc' = "L35"
                /\ UNCHANGED <<queueInit, queue, WAKER, ready, diag,
                               pushed>>)]_vars
    /\ [][(ipc = "L35" /\ ipc' # ipc)
            => (ipc' = "none" /\ diag' = Append(diag, "uninit")
                /\ UNCHANGED <<queueInit, queue, WAKER, ready,
                               pushed>>)]_vars
    /\ [][ipc # "none" => queueInit' = queueInit]_vars
    /\ [](~queueInit => (queue = <<>> /\ pushed = <<>> /\ delivered = <<>>))
    /\ [](ipc = "none"
            => /\ Len(diag) <= Len(offered)
               /\ pushed = SubSeq(offered, Len(diag) + 1, Len(offered)))
    /\ [](Len(delivered) <= Len(pushed)
            /\ delivered = SubSeq(pushed, 1, Len(delivered)))

\* a code was dropped before initialisation, later codes were delivered
C8_Witness ==
    /\ ipc = "none"
    /\ queueInit
    /\ diag # <<>>
    /\ diag[1] = "uninit"
    /\ delivered # <<>>
    /\ delivered = SubSeq(offered, Len(diag) + 1, Len(offered))

C10_MapTranslateRoundTrip ==
    [][(lastMap'.n # lastMap.n /\ lastMap'.result = "Ok")
        => /\ translate(tables, lastMap'.page) = NotMapped
           /\ translate(tables', lastMap'.page)
                = [frame |-> VGA_FRAME, flags |-> {"PRESENT", "WRITABLE"}]
           /\ \A q \in Pages \ {lastMap'.page} :
                translate(tables, q) # NotMapped
                => translate(tables', q) = translate(tables, q)]_vars

\* a second page was mapped through freshly allocated tables while the
\* bootloader's page and the first page keep their translations
C10_Witness ==
    /\ lastMap.n = 2
    /\ lastMap.result = "Ok"
    /\ Len(results) = 3
    /\ \A i \in 1..3 : results[i] # NoFrame
    /\ translate(tables, lastMap.page).frame = VGA_FRAME
    /\ translate(tables, <<0, 0, 0, 0>>).frame = BootFrame
    /\ Cardinality({q \in Pages : translate(tables, q).frame = VGA_FRAME}) = 2

\* C11: a mapping conflict is fatal and non-destructive.  Mapping a page
\* whose leaf entry is present yields PageAlreadyMapped; the page tables and
\* the allocator are left as they were, so the first mapping keeps its frame
\* and flags; and no mapping call follows a failed one (expect panicked).
C11_ConflictFatal ==
    /\ [][(lastMap'.n # lastMap.n
            /\ translate(tables, lastMap'.page) # NotMapped)
          => /\ lastMap'.result = "PageAlreadyMapped"
             /\ tables' = tables
             /\ next' = next
             /\ translate(tables', lastMap'.page)
                    = translate(tables, lastMap'.page)]_vars
    /\ [][lastMap'.n # lastMap.n => lastMap.result \in {"none", "Ok"}]_vars

\* the page mapped by the bootloader was mapped again: the call failed and
\* the page still translates to the bootloader's frame and flags
C11_Witness ==
    /\ lastMap.result = "PageAlreadyMapped"
    /\ lastMap.page = <<0, 0, 0, 0>>
    /\ translate(tables, lastMap.page)
            = [frame |-> BootFrame, flags |-> {"PRESENT"}]

\* C12: a poll_next call reaches its second pop only after the first pop
\* found the queue empty and the waker was registered; when the second pop
\* finds a code, the call returns Ready with that code and leaves no waker
\* registered; the call returns Pending only from the second pop on an empty
\* queue, having removed no code.
C12_SecondPopOutcome ==
    /\ [][\A t \in Tasks :
            (tpc[t] # "L69" /\ tpc'[t] = "L69")
            => (tpc[t] = "L65" /\ queue = <<>> /\ queue' = <<>>)]_vars
    /\ [][\A t \in Tasks :
            (tpc[t] # "L70" /\ tpc'[t] = "L70")
            => (tpc[t] = "L69" /\ WAKER' = t /\ queue' = queue)]_vars
    /\ [][\A t \in Tasks :
            (tpc[t] # "L72" /\ tpc'[t] = "L72")
            => (tpc[t] = "L70" /\ queue # <<>> /\ held'[t] = Head(queue)
                /\ queue' = Tail(queue))]_vars
    /\ [][\A t \in Tasks :
            (tpc[t] = "L72" /\ tpc'[t] # "L72")
            => (tpc'[t] = "L44" /\ lastPoll'[t] = "ready"
                /\ WAKER' = NoWaker
                /\ delivered' = Append(delivered, held[t]))]_vars
    /\ [][\A t \in Tasks :
            (tpc[t] # "suspended" /\ tpc'[t] = "suspended")
            => (tpc[t] = "L70" /\ lastPoll'[t] = "pending"
                /\ queue = <<>> /\ queue' = <<>>
                /\ held[t] = NoCode /\ held'[t] = NoCode
                /\ delivered' = delivered)]_vars

\* a code arrived between the first pop and the registration: the second pop
\* took it while the waker of the polling task is still registered
C12_Witness ==
    \E t \in Tasks :
        /\ running = t
        /\ tpc[t] = "L72"
        /\ held[t] # NoCode
        /\ WAKER = t
        /\ ipc = "none"

\* C13: whenever the executor has parked, the ready-queue is empty, the
\* task set holds exactly the spawned tasks that never complete, each with
\* its cached waker, and no waker of a completed task is cached; without
\* any wake every spawned task was polled exactly once, in one drain pass.
\* For task A completing at once and task B never completing this leaves
\* only B.
C13_DrainPass ==
    executor.pc = "parked"
    => /\ executor.ready_queue = <<>>
       /\ executor.tasks = {id \in 1..Len(executor.kinds) :
                                executor.kinds[id] = "never"}
       /\ executor.waker_cache = executor.tasks
       /\ executor.wakes = 0
            => \A id \in 1..Len(executor.kinds) : executor.polled[id] = 1

\* A (completes) and B (never completes) were spawned, the ready-queue was
\* drained once and the executor parked with B alone
C13_Witness ==
    /\ executor.pc = "parked"
    /\ executor.kinds = <<"completes", "never">>
    /\ executor.wakes = 0
    /\ executor.tasks = {2}
    /\ executor.waker_cache = {2}
    /\ executor.ready_queue = <<>>
    /\ executor.polled = <<1, 1>>

\* the results of allocate_frame that carry a frame
Handed == {i \in 1..Len(results) : results[i] # NoFrame}

\* C14: the cursor never decreases over a call of allocate_frame, and once
\* a call has returned None every later call returns None too.
C14_ExhaustionPermanent ==
    [][/\ next' >= next
       /\ (\E i \in 1..Len(results) : results[i] = NoFrame)
            => results' = Append(results, NoFrame)]_vars

\* a frame was handed out, then the supply ran out and two further calls
\* returned None
C14_Witness ==
    /\ Len(results) >= 3
    /\ results[1] # NoFrame
    /\ results[Len(results) - 1] = NoFrame
    /\ results[Len(results)] = NoFrame

\* C15 as stated: the cursor equals the number of calls that returned a
\* frame, also after exhaustion
C15_Original == next = Cardinality(Handed)

\* C15, amended: the cursor equals the number of allocate_frame calls made,
\* whatever they returned; the number of frames handed out is the cursor
\* capped at the usable supply, so the two agree until the first None and
\* differ by the number of None results afterwards.
C15_CursorCountsCalls ==
    /\ next = Len(results)
    /\ Cardinality(Handed) = Min(next, UsableCount)
    /\ next - Cardinality(Handed)
         = Cardinality({i \in 1..Len(results) : results[i] = NoFrame})

\* two frames were handed out and two calls after exhaustion returned None:
\* the cursor is 4, the number of frames handed out 2
C15_Witness ==
    /\ next = 4
    /\ Cardinality(Handed) = 2
    /\ results[3] = NoFrame
    /\ results[4] = NoFrame

\* the usable regions of the memory map share no frame
UsableDisjoint ==
    \A i, j \in 1..Len(memory_map) :
        (/\ i < j
         /\ memory_map[i].region_type = "Usable"
         /\ memory_map[j].region_type = "Usable")
        => \/ memory_map[i].end_frame_number <= memory_map[j].start_frame_number
           \/ memory_map[j].end_frame_number <= memory_map[i].start_frame_number

\* C18: when the usable regions are pairwise disjoint (they are 4 KiB
\* aligned by construction of the frame ranges), no two calls of
\* allocate_frame return the same frame, and every returned frame is 4 KiB
\* aligned and lies inside a usable region.
C18_NoFrameTwice ==
    UsableDisjoint =>
        \A m \in Handed :
            /\ \A n \in Handed : m # n => results[m] # results[n]
            /\ results[m] % PAGE_SIZE = 0
            /\ InUsableRegion(results[m])

\* two disjoint, non-empty usable regions, listed against address order,
\* drained completely: frames of both were handed out
C18_Witness ==
    /\ Len(memory_map) = 2
    /\ UsableDisjoint
    /\ \A i \in 1..2 :
        /\ memory_map[i].region_type = "Usable"
        /\ memory_map[i].start_frame_number < memory_map[i].end_frame_number
    /\ memory_map[2].end_frame_number <= memory_map[1].start_frame_number
    /\ Cardinality(Handed) = UsableCount
    /\ Len(results) > UsableCount

\* the number of intermediate tables (level 3, 2, 1) that are absent on
\* the path of the page
Missing(tb, page) ==
    LET e4 == tb[CR3][page[1]]
    IN  IF is_unused(e4) THEN 3
        ELSE LET e3 == tb[e4.frame][page[2]]
             IN  IF is_unused(e3) THEN 2
                 ELSE LET e2 == tb[e3.frame][page[3]]
                      IN  IF is_unused(e2) THEN 1 ELSE 0

\* the entries of the tables tb that differ in the tables tb2
Rewritten(tb, tb2) ==
    {fi \in (DOMAIN tb) \X Indices : tb2[fi[1]][fi[2]] # tb[fi[1]][fi[2]]}

\* C16: a successful map takes exactly one frame per absent intermediate
\* table on the page's path (0 to 3); the new frames become tables that are
\* zero but for the one entry on the path, chained present and writable
\* down to the leaf; among the tables that existed, exactly one entry, an
\* unused one, is written, so present intermediate entries stay as they
\* were.  When the allocator returns None for a needed table, the map fails,
\* no leaf for the page is written, and no further call follows.
C16_FramePerAbsentLevel ==
    [][LET page == lastMap'.page
           k == Missing(tables, page)
           base == Len(results)
           new(j) == results'[base + j]
           leaf == [frame |-> VGA_FRAME, flags |-> PRESENT_WRITABLE]
           link(j) == IF j = k THEN leaf
                      ELSE [frame |-> new(j + 1), flags |-> PRESENT_WRITABLE]
       IN  /\ (lastMap'.n # lastMap.n /\ lastMap'.result = "Ok") =>
                /\ next' = next + k
                /\ Len(results') = base + k
                /\ \A j \in 1..base : results'[j] = results[j]
                /\ \A j \in 1..k :
                    /\ new(j) # NoFrame
                    /\ new(j) \notin DOMAIN tables
                    /\ tables'[new(j)]
                         = [ZeroTable EXCEPT ![page[4 - k + j]] = link(j)]
                /\ DOMAIN tables' = DOMAIN tables \cup {new(j) : j \in 1..k}
                /\ Cardinality(Rewritten(tables, tables')) = 1
                /\ \A fi \in Rewritten(tables, tables') :
                    /\ is_unused(tables[fi[1]][fi[2]])
                    /\ fi[2] = page[4 - k]
                    /\ tables'[fi[1]][fi[2]] = link(0)
                /\ translate(tables', page) = leaf
           /\ (lastMap'.n # lastMap.n
               /\ lastMap'.result = "FrameAllocationFailed") =>
                /\ k > 0
                /\ results'[Len(results')] = NoFrame
                /\ translate(tables', page) = NotMapped
                /\ \A f \in DOMAIN tables' : \A i \in Indices :
                    tables'[f][i].frame = VGA_FRAME
                        => f \in DOMAIN tables /\ tables[f][i] = tables'[f][i]
           /\ lastMap.result = "FrameAllocationFailed"
                => UNCHANGED <<tables, next, results, lastMap>>]_vars

\* next to the page the bootloader mapped, three pages were mapped with
\* two, one and no absent table on their path, using up three frames
C16_Witness ==
    /\ BootP1 \in DOMAIN tables
    /\ lastMap.n = 3
    /\ lastMap.result = "Ok"
    /\ next = 3
    /\ \A j \in 1..3 : results[j] # NoFrame
    /\ Missing(tables, lastMap.page) = 0
    /\ Cardinality({page \in MapPages :
                      translate(tables, page).frame = VGA_FRAME}) = 3

\* the positions of a task inside poll_next
InPollNext == {"L63", "L65", "L69", "L70", "L72"}

\* C17: the stream never ends.  A task is always at one of the positions of
\* print_keypresses, never past its loop; poll_next is left only with
\* Ready(Some(code)), one code handed over, towards the loop body, or with
\* Pending, nothing handed over, towards suspension; from the loop body and
\* from suspension the task only re-enters poll_next.
C17_StreamNeverEnds ==
    /\ [](\A t \in Tasks :
            /\ tpc[t] \in {"spawned", "L40", "L44", "suspended"} \cup InPollNext
            /\ lastPoll[t] \in {"none", "ready", "pending"})
    /\ [][\A t \in Tasks :
            (tpc[t] \in InPollNext /\ tpc'[t] \notin InPollNext)
            => \/ /\ tpc'[t] = "L44"
                  /\ lastPoll'[t] = "ready"
                  /\ \E code \in Codes : delivered' = Append(delivered, code)
               \/ /\ tpc'[t] = "suspended"
                  /\ lastPoll'[t] = "pending"
                  /\ delivered' = delivered]_vars
    /\ [][\A t \in Tasks :
            (tpc[t] \in {"L44", "suspended"} /\ tpc'[t] # tpc[t])
            => tpc'[t] = "L63"]_vars

\* a task received a code, was later suspended on Pending, was resumed and
\* received a further code: it is in the loop body again
C17_Witness ==
    \E t \in Tasks :
        /\ running = t
        /\ tpc[t] = "L44"
        /\ resumed[t]
        /\ lastPoll[t] = "ready"
        /\ Len(delivered) = 2

\* C19: a stream value exists only with an initialised queue, a task inside
\* or past poll_next owns the stream, so the expect of line 63 never
\* panics: a panic arises only in the constructor at line 40, and line 63
\* always proceeds to the first pop; a stream once created stays, and at
\* most one is ever created.
C19_StreamImpliesQueue ==
    /\ [](\A t \in Tasks :
            /\ streams[t] => queueInit
            /\ tpc[t] \in InPollNext \cup {"L44", "suspended"} => streams[t])
    /\ [][(~panicked /\ panicked')
            => \E t \in Tasks : running = t /\ tpc[t] = "L40"]_vars
    /\ [][\A t \in Tasks :
            (tpc[t] = "L63" /\ tpc'[t] # "L63")
            => tpc'[t] = "L65" /\ ~panicked']_vars
    /\ [][\A t \in Tasks : streams[t] => streams'[t]]_vars
    /\ [](Cardinality({t \in Tasks : streams[t]}) <= 1)

\* the owner of the stream, resumed after a Pending, passed the expect of
\* line 63 again while the other task has not constructed anything
C19_Witness ==
    \E t \in Tasks :
        /\ streams[t]
        /\ running = t
        /\ tpc[t] = "L65"
        /\ resumed[t]
        /\ ~panicked
        /\ \E u \in Tasks : u # t /\ ~streams[u] /\ tpc[u] = "spawned"

====
